---- MODULE Spec2Model ----
(***************************************************************************)
(* A model of the kangal LoadTest controller                               *)
(* (pkg/controller/loadtest.go): the rate limited work queue, the informer *)
(* event handlers, the workers running processNextWorkItem and the         *)
(* reconciler syncHandler with its calls to the cluster API.               *)
(***************************************************************************)
EXTENDS Integers, Sequences, FiniteSets, TLC

(***************************************************************************)
(* Bounds of the model.                                                    *)
(***************************************************************************)
\* number of worker goroutines started by Run (numThreads)
NumWorkers == 2
\* cap on the per-key failure count of the rate limiter
MaxFailures == 2
\* largest clock reading (time.Now) a reconcile may observe
MaxNow == 2
\* the enqueues of a key are counted up to MaxAdds (MaxAdds: that many or more)
MaxAdds == 2

\* the resourceVersions of an object are 1..MaxVersion
MaxVersion == 2

\* the counters of a Job status are 0..MaxJobs
MaxJobs == 2

Workers == 1..NumWorkers

\* names of the LoadTest resources of the cluster (cluster scoped: key = name)
LoadTests == {"t1"}

\* the key MetaNamespaceKeyFunc derives for a cluster scoped LoadTest
KeyOf(name) == name

Phases == {"Creating", "Starting", "Running", "Finished", "Errored"}

\* values of spec.type; the Registry holds a backend for "Ghz" only
LoadTestTypes == {"Ghz", "Unregistered"}
Registry == {"Ghz"}

\* Status.JobStatus.CompletionTime == nil
NilTime == -1
\* the non-zero value of cfg.CleanUpThreshold used by the model
Threshold == 1

NoKey == ""

VARIABLES
  workQueue,         \* c.workQueue: [queue, dirty, processing, waiting, failures, shuttingDown]
  store,             \* the LoadTest objects held by the API server
  cache,             \* the LoadTest objects held by the informer cache (loadtestsLister)
  namespaces,        \* names of the LoadTests that own a namespace labelled controller=<name>
  CleanUpThreshold,  \* c.cfg.CleanUpThreshold
  synced,            \* the informers whose HasSynced reports true
  stopCh,            \* TRUE once stopCh is closed
  runPc,             \* position of Controller.Run
  pc,                \* position of every worker in processNextWorkItem
  item,              \* the key every worker obtained from Get
  syncErr,           \* the err every worker holds once syncHandler has returned
  adds,              \* enqueueLoadTest calls for a key since Get last returned it (a count)
  lifetime,          \* a call of checkLoadTestLifeTimeExceeded: its arguments and result
  process,           \* a call of processNextWorkItem, statement by statement
  event,             \* an event delivered to a handler of NewController, and its enqueues
  ghz,               \* calls of the functions of the ghz backend: arguments and results
  last               \* what the reconcile of the step just taken did (a log)

vars == <<workQueue, store, cache, namespaces, CleanUpThreshold, synced, stopCh,
          runPc, pc, item, syncErr, adds, lifetime, process, event, ghz, last>>

(***************************************************************************)
(* LoadTest objects.                                                       *)
(***************************************************************************)
Absent == [exists |-> FALSE, type |-> "Ghz", phase |-> "Creating",
           namespace |-> "", completion |-> NilTime, creation |-> 0]

NewLoadTest(type) == [exists |-> TRUE, type |-> type, phase |-> "Creating",
                      namespace |-> "", completion |-> NilTime, creation |-> 0]

(***************************************************************************)
(* The work queue (workqueue.RateLimitingInterface): a FIFO of keys that   *)
(* holds a key at most once (dirty), defers a key added while a worker     *)
(* processes it (processing) until Done, delays a rate limited key         *)
(* (waiting) and counts the failures of every key.                         *)
(***************************************************************************)
NewQueue == [queue |-> <<>>, dirty |-> {}, processing |-> {}, waiting |-> {},
             failures |-> [k \in LoadTests |-> 0], shuttingDown |-> FALSE]

InQueue(q, k) == \E i \in 1..Len(q.queue) : q.queue[i] = k

Count(q, k) == Cardinality({i \in 1..Len(q.queue) : q.queue[i] = k})

\* Add(key)
Add(q, k) ==
  IF q.shuttingDown THEN q
  ELSE IF k \in q.dirty THEN q
  ELSE IF k \in q.processing THEN [q EXCEPT !.dirty = @ \cup {k}]
  ELSE [q EXCEPT !.dirty = @ \cup {k}, !.queue = Append(@, k)]

\* AddRateLimited(key): the rate limiter counts one more failure of the key
\* and the key is added once its back-off delay (always positive) has passed
AddRateLimited(q, k) ==
  LET counted == [q EXCEPT !.failures[k] = @ + 1]
  IN  IF q.shuttingDown THEN counted
      ELSE [counted EXCEPT !.waiting = @ \cup {k}]

\* the back-off timer of a delayed key fires: the key is added
TimerFire(q, k) == Add([q EXCEPT !.waiting = @ \ {k}], k)

\* Forget(key)
Forget(q, k) == [q EXCEPT !.failures[k] = 0]

\* Get() when it returns an item: the head of the queue becomes in-flight
GetItem(q) == Head(q.queue)

Get(q) ==
  LET k == Head(q.queue)
  IN  [q EXCEPT !.queue = Tail(@), !.processing = @ \cup {k}, !.dirty = @ \ {k}]

\* Done(key)
Done(q, k) ==
  LET finished == [q EXCEPT !.processing = @ \ {k}]
  IN  IF k \in q.dirty THEN [finished EXCEPT !.queue = Append(@, k)] ELSE finished

\* ShutDown()
ShutDown(q) == [q EXCEPT !.shuttingDown = TRUE]

(***************************************************************************)
(* The reconciler.  A reconcile in progress is a record st:                *)
(*   err    an error is being returned                                     *)
(*   failedAt  the step whose error it is ("none": every step succeeded)   *)
(*   cached the object of the cache (loadTestFromCache)                    *)
(*   lt     the object the steps mutate (loadTest)                         *)
(*   shared loadTest and loadTestFromCache are one object (no copy made)   *)
(*   obj    the LoadTest held by the API server                            *)
(*   nss    the namespaces of the cluster                                  *)
(*   exceeded  what the check of the lifetime returned ("unchecked": the   *)
(*          clean up did not call it)                                      *)
(*   calls  the calls issued so far, in order                              *)
(*   del, upd  the outcome of the Delete and of the UpdateStatus call      *)
(* Every step maps st to the set of its possible outcomes: the calls to    *)
(* the cluster API and to the backend may fail.                            *)
(***************************************************************************)
CompletionTimes == {NilTime, 0}

Called(st, call) == [st EXCEPT !.calls = Append(@, call)]

\* a failing step as it would be if syncHandler logged the error and
\* returned nil
FailedSwallowed(st, step) == [st EXCEPT !.failedAt = step]

\* the step returned an error, which syncHandler returns
Failed(st, step) == [st EXCEPT !.err = TRUE, !.failedAt = step]

\* syncHandler as it would be if it worked on the object of the cache itself
NoDeepCopy(st) == st

\* loadTest := loadTestFromCache.DeepCopy(): from here on loadTest is an
\* object of its own, no longer the object the cache holds
DeepCopy(st) == [st EXCEPT !.shared = FALSE]

\* loadtest.Status.Namespace = v: a write through the pointer loadTest
SetNamespace(st, v) ==
  IF st.shared
  THEN [st EXCEPT !.lt.namespace = v, !.cached.namespace = v]
  ELSE [st EXCEPT !.lt.namespace = v]

\* the writes of backend.SyncStatus through &loadTest.Status
SetStatus(st, p, c) ==
  IF st.shared
  THEN [st EXCEPT !.lt.phase = p, !.lt.completion = c,
                  !.cached.phase = p, !.cached.completion = c]
  ELSE [st EXCEPT !.lt.phase = p, !.lt.completion = c]

\* newNamespace: the namespace carries the name of the LoadTest and the
\* label controller=<name>
newNamespace(name) == name

\* checkOrCreateNamespace as it would be without its early return: the
\* namespace is looked up on every reconcile
checkOrCreateNamespaceAlways(st, name) ==
  LET listed == Called(st, "List")
  IN  {Failed(listed, "List")}
      \cup
      IF name \notin st.nss
      THEN LET created == Called(listed, "Create")
           IN  { Failed(created, "Create"),
                 SetNamespace([created EXCEPT !.nss = @ \cup {newNamespace(name)}],
                              newNamespace(name)) }
      ELSE { SetNamespace(listed, name) }

\* checkOrCreateNamespace as it would be if it did not write the name of the
\* namespace to the status of the LoadTest
checkOrCreateNamespaceUnset(st, name) ==
  IF st.lt.namespace # ""
  THEN {st}
  ELSE LET listed == Called(st, "List")
       IN  {Failed(listed, "List")}
           \cup
           IF name \notin st.nss
           THEN LET created == Called(listed, "Create")
                IN  { Failed(created, "Create"),
                      [created EXCEPT !.nss = @ \cup {newNamespace(name)}] }
           ELSE { listed }

\* checkOrCreateNamespace as it would be if it created the namespace without
\* looking for one that carries the label of the LoadTest
checkOrCreateNamespaceUnlisted(st, name) ==
  IF st.lt.namespace # ""
  THEN {st}
  ELSE LET created == Called(st, "Create")
       IN  { Failed(created, "Create"),
             SetNamespace([created EXCEPT !.nss = @ \cup {newNamespace(name)}],
                          newNamespace(name)) }

\* checkOrCreateNamespace
checkOrCreateNamespace(st, name) ==
  IF st.lt.namespace # ""
  THEN {st}
  ELSE LET listed == Called(st, "List")
       IN  {Failed(listed, "List")}
           \cup
           IF name \notin st.nss
           THEN LET created == Called(listed, "Create")
                IN  { Failed(created, "Create"),
                      SetNamespace([created EXCEPT !.nss = @ \cup {newNamespace(name)}],
                                   newNamespace(name)) }
           ELSE { SetNamespace(listed, name) }

\* backend.Sync
BackendSync(st) ==
  LET called == Called(st, "Sync") IN {called, Failed(called, "Sync")}

\* backend.SyncStatus: the backend writes the phase and the job status of the
\* copy, and may fail
BackendSyncStatus(st) ==
  LET called == Called(st, "SyncStatus")
      written == { SetStatus(called, p, c) : p \in Phases, c \in CompletionTimes }
  IN  written \cup { Failed(w, "SyncStatus") : w \in written }

\* checkLoadTestLifeTimeExceeded as it would be with >= for > in the comparison
\* with the completion time
checkLoadTestLifeTimeExceededFrom(loadTest, deleteThreshold, now) ==
  IF /\ loadTest.completion # NilTime
     /\ now - loadTest.completion >= deleteThreshold
     /\ loadTest.phase \in {"Finished", "Errored"}
  THEN TRUE
  ELSE IF /\ loadTest.phase = "Errored"
          /\ now - loadTest.creation > deleteThreshold
  THEN TRUE
  ELSE FALSE

\* checkLoadTestLifeTimeExceeded, with time.Since(t) = now - t
checkLoadTestLifeTimeExceeded(loadTest, deleteThreshold, now) ==
  IF /\ loadTest.completion # NilTime
     /\ now - loadTest.completion > deleteThreshold
     /\ loadTest.phase \in {"Finished", "Errored"}
  THEN TRUE
  ELSE IF /\ loadTest.phase = "Errored"
          /\ now - loadTest.creation > deleteThreshold
  THEN TRUE
  ELSE FALSE

\* deleteLoadTest: a failure of the Delete call is logged, never returned
deleteLoadTest(st) ==
  LET called == Called(st, "Delete")
  IN  (IF st.obj.exists
          THEN { [called EXCEPT !.obj = Absent, !.del = "ok"],
                 [called EXCEPT !.del = "conflict"] }
          ELSE {})
      \cup { [called EXCEPT !.del = "error"] }

\* the readings of the clock (time.Now) a reconcile may observe
Clock == 0..MaxNow

\* the check of the lifetime by a reconcile, at one of the readings of the
\* clock; st.exceeded keeps what checkLoadTestLifeTimeExceeded returned
CheckLifeTime(st, threshold) ==
  LET exceeded == { now \in Clock : checkLoadTestLifeTimeExceeded(st.lt, threshold, now) }
  IN  (IF exceeded # {} THEN { [st EXCEPT !.exceeded = "yes"] } ELSE {})
      \cup (IF exceeded # Clock THEN { [st EXCEPT !.exceeded = "no"] } ELSE {})

\* the clean up as it would be if a threshold of 0 did not switch it off
CleanUpUnconfigured(st, threshold) ==
  UNION { IF c.exceeded = "yes" THEN deleteLoadTest(c) ELSE {c} :
            c \in CheckLifeTime(st, threshold) }

\* the check and the deletion of a stale finished or errored LoadTest: with a
\* threshold configured, the LoadTest is deleted if its lifetime is exceeded
CleanUp(st, threshold) ==
  IF threshold = 0
  THEN {st}
  ELSE UNION { IF c.exceeded = "yes" THEN deleteLoadTest(c) ELSE {c} :
                 c \in CheckLifeTime(st, threshold) }

\* UpdateStatus(loadTest): it writes the status of loadTest, and succeeds
\* only against the version of the object that the cache holds
UpdateStatus(st) ==
  LET called == Called(st, "UpdateStatus")
  IN  (IF st.obj.exists /\ st.obj = st.cached
          THEN { [called EXCEPT !.upd = "ok",
                                !.obj.phase = st.lt.phase,
                                !.obj.namespace = st.lt.namespace,
                                !.obj.completion = st.lt.completion] }
          ELSE {})
      \cup (IF st.obj.exists THEN { [called EXCEPT !.upd = "conflict"] } ELSE {})
      \cup { [called EXCEPT !.upd = "error"] }

\* updateLoadTestStatus as it would be without the comparison of the phases
updateLoadTestStatusUnguarded(st) == UpdateStatus(st)

\* updateLoadTestStatus as it would be if syncHandler returned the error of
\* UpdateStatus, a conflict included
updateLoadTestStatusReturned(st) ==
  IF st.lt.phase # st.cached.phase
  THEN { IF s.upd = "ok" THEN s ELSE [s EXCEPT !.err = TRUE] : s \in UpdateStatus(st) }
  ELSE {st}

\* updateLoadTestStatus (deferred by syncHandler)
updateLoadTestStatus(st) ==
  IF st.lt.phase # st.cached.phase THEN UpdateStatus(st) ELSE {st}

\* the fetch of the LoadTest as it would be if syncHandler returned the
\* not-found error of the lister
BeginNotFoundReturned(loadTestFromCache, obj, nss) ==
  [err |-> ~loadTestFromCache.exists,
   failedAt |-> IF loadTestFromCache.exists THEN "none" ELSE "Get",
   shared |-> TRUE, cached |-> loadTestFromCache,
   lt |-> loadTestFromCache, obj |-> obj, nss |-> nss, exceeded |-> "unchecked",
   calls |-> <<>>, del |-> "none", upd |-> "none"]

\* loadTestFromCache, err := c.loadtestsLister.Get(name): the reconcile
\* starts with loadTest the object of the cache
Begin(loadTestFromCache, obj, nss) ==
  [err |-> FALSE, failedAt |-> "none", shared |-> TRUE, cached |-> loadTestFromCache,
   lt |-> loadTestFromCache, obj |-> obj, nss |-> nss, exceeded |-> "unchecked",
   calls |-> <<>>, del |-> "none", upd |-> "none"]

\* the steps of syncHandler as they would be if the error of backend.Sync
\* were looked at after backend.SyncStatus only
StepsSyncUnchecked(st, name, threshold) ==
  LET ensured == checkOrCreateNamespace(st, name)
      syncedUp == UNION { IF s.err THEN {s} ELSE BackendSync(s) : s \in ensured }
      observed == UNION { IF s.failedAt \in {"List", "Create"} THEN {s}
                          ELSE BackendSyncStatus(s) : s \in syncedUp }
  IN  UNION { IF s.err THEN {s} ELSE CleanUp(s, threshold) : s \in observed }

\* the steps of syncHandler as they would be if the status were written right
\* after backend.SyncStatus, before the clean up
StepsStatusFirst(st, name, threshold) ==
  LET ensured == checkOrCreateNamespace(st, name)
      syncedUp == UNION { IF s.err THEN {s} ELSE BackendSync(s) : s \in ensured }
      observed == UNION { IF s.err THEN {s} ELSE BackendSyncStatus(s) : s \in syncedUp }
      written == UNION { IF s.err THEN {s} ELSE updateLoadTestStatus(s) : s \in observed }
  IN  UNION { IF s.err THEN {s} ELSE CleanUp(s, threshold) : s \in written }

\* the steps of syncHandler after the deferred status update is installed:
\* a step runs only if no earlier step returned an error
Steps(st, name, threshold) ==
  LET ensured == checkOrCreateNamespace(st, name)
      syncedUp == UNION { IF s.err THEN {s} ELSE BackendSync(s) : s \in ensured }
      observed == UNION { IF s.err THEN {s} ELSE BackendSyncStatus(s) : s \in syncedUp }
  IN  UNION { IF s.err THEN {s} ELSE CleanUp(s, threshold) : s \in observed }

\* syncHandler(key): the final st of every way it may run
syncHandler(name, loadTestFromCache, obj, nss, threshold) ==
  LET st == Begin(loadTestFromCache, obj, nss)
  IN  IF ~loadTestFromCache.exists
      THEN {st}
      ELSE LET resolved == Called(DeepCopy(st), "GetBackend")
           IN  IF loadTestFromCache.type \notin Registry
               THEN {Failed(resolved, "GetBackend")}
               ELSE UNION { updateLoadTestStatus(s) : s \in Steps(resolved, name, threshold) }

\* the log of a reconcile: the final st of syncHandler, and what it started
\* from (worker, key, the failures counted, the objects, the namespaces)
NoReconcile ==
  [ran |-> FALSE, worker |-> 0, key |-> NoKey, failures0 |-> 0, waiting0 |-> FALSE,
   cached0 |-> Absent, obj0 |-> Absent, nss0 |-> {},
   err |-> FALSE, failedAt |-> "none", shared |-> TRUE, cached |-> Absent, lt |-> Absent,
   obj |-> Absent, nss |-> {}, exceeded |-> "unchecked", calls |-> <<>>, del |-> "none",
   upd |-> "none"]

\* no call of checkLoadTestLifeTimeExceeded on its own
NoCall ==
  [loadTest |-> Absent, deleteThreshold |-> 0, now |-> 0, called |-> FALSE, exceeded |-> FALSE]

\* no call of processNextWorkItem on its own
NoItem == [pc |-> "none"]

\* no event on its own
NoEvent == [kind |-> "none"]

\* no call of a function of the ghz backend on its own
NoGhz == [called |-> "none"]

(***************************************************************************)
(* The state after NewController: nothing queued, no worker started.       *)
(***************************************************************************)
Informers == {"namespace", "pod", "job", "loadtest"}

\* the informers Run waits for
WaitedFor == {"namespace", "pod", "loadtest"}

Init ==
  /\ workQueue = NewQueue
  /\ store = [n \in LoadTests |-> Absent]
  /\ cache = [n \in LoadTests |-> Absent]
  /\ namespaces = {}
  /\ CleanUpThreshold = Threshold
  /\ synced = {}
  /\ stopCh = FALSE
  /\ runPc = "waitSync"
  /\ pc = [w \in Workers |-> "idle"]
  /\ item = [w \in Workers |-> NoKey]
  /\ syncErr = [w \in Workers |-> FALSE]
  /\ lifetime = NoCall
  /\ process = NoItem
  /\ event = NoEvent
  /\ ghz = NoGhz
  /\ adds = [k \in LoadTests |-> 0]
  /\ last = NoReconcile

\* a step that is no reconcile leaves nothing in the log
NoLog == last' = NoReconcile

(***************************************************************************)
(* The cluster and the informers.                                          *)
(***************************************************************************)
\* a client creates a LoadTest
CreateLoadTest(n) ==
  /\ ~store[n].exists
  /\ \E type \in LoadTestTypes : store' = [store EXCEPT ![n] = NewLoadTest(type)]
  /\ NoLog
  /\ UNCHANGED <<workQueue, cache, namespaces, CleanUpThreshold, synced, stopCh,
                 runPc, pc, item, adds, syncErr, lifetime, process, event, ghz>>

\* a client deletes a LoadTest
RemoveLoadTest(n) ==
  /\ store[n].exists
  /\ store' = [store EXCEPT ![n] = Absent]
  /\ NoLog
  /\ UNCHANGED <<workQueue, cache, namespaces, CleanUpThreshold, synced, stopCh,
                 runPc, pc, item, adds, syncErr, lifetime, process, event, ghz>>

\* the cluster's garbage collector removes the namespace of a deleted owner
CollectNamespace(n) ==
  /\ n \in namespaces
  /\ ~store[n].exists
  /\ namespaces' = namespaces \ {n}
  /\ NoLog
  /\ UNCHANGED <<workQueue, store, cache, CleanUpThreshold, synced, stopCh,
                 runPc, pc, item, adds, syncErr, lifetime, process, event, ghz>>

\* enqueueLoadTest as it would be if it put the key on the queue itself,
\* whatever the queue holds and whoever works on the key
EnqueueAppended(q, n) ==
  IF q.shuttingDown THEN q ELSE [q EXCEPT !.queue = Append(@, KeyOf(n)), !.dirty = @ \cup {KeyOf(n)}]

\* enqueueLoadTest(obj)
enqueueLoadTest(q, n) == Add(q, KeyOf(n))

\* one more enqueueLoadTest call for the key of n is counted
Counted(n) ==
  [adds EXCEPT ![KeyOf(n)] = IF workQueue.shuttingDown \/ @ = MaxAdds THEN @ ELSE @ + 1]

\* the LoadTest informer observes a change: it stores the object and calls
\* AddFunc or UpdateFunc (enqueueLoadTest); it has no DeleteFunc
LoadTestChanged(n) ==
  /\ cache[n] # store[n]
  /\ cache' = [cache EXCEPT ![n] = store[n]]
  /\ workQueue' = IF store[n].exists THEN enqueueLoadTest(workQueue, n) ELSE workQueue
  /\ adds' = IF store[n].exists THEN Counted(n) ELSE adds
  /\ NoLog
  /\ UNCHANGED <<store, namespaces, CleanUpThreshold, synced, stopCh, runPc, pc, item, syncErr, lifetime, process, event, ghz>>

\* the periodic resync of the LoadTest informer: UpdateFunc with the object
\* of the cache
LoadTestResync(n) ==
  /\ cache[n].exists
  /\ workQueue' = enqueueLoadTest(workQueue, n)
  /\ adds' = Counted(n)
  /\ NoLog
  /\ UNCHANGED <<store, cache, namespaces, CleanUpThreshold, synced, stopCh,
                 runPc, pc, item, syncErr, lifetime, process, event, ghz>>

\* an informer completes its initial list (HasSynced is read by
\* WaitForCacheSync only: it is not followed once Run has left it)
HasSynced(i) ==
  /\ runPc = "waitSync"
  /\ i \notin synced
  /\ synced' = synced \cup {i}
  /\ NoLog
  /\ UNCHANGED <<workQueue, store, cache, namespaces, CleanUpThreshold, stopCh,
                 runPc, pc, item, adds, syncErr, lifetime, process, event, ghz>>

\* the back-off delay of a rate limited key has passed
BackoffElapsed(k) ==
  /\ k \in workQueue.waiting
  /\ ~workQueue.shuttingDown
  /\ workQueue' = TimerFire(workQueue, k)
  /\ NoLog
  /\ UNCHANGED <<store, cache, namespaces, CleanUpThreshold, synced, stopCh,
                 runPc, pc, item, adds, syncErr, lifetime, process, event, ghz>>

(***************************************************************************)
(* Controller.Run                                                          *)
(***************************************************************************)
CloseStopCh ==
  /\ ~stopCh
  /\ stopCh' = TRUE
  /\ NoLog
  /\ UNCHANGED <<workQueue, store, cache, namespaces, CleanUpThreshold, synced,
                 runPc, pc, item, adds, syncErr, lifetime, process, event, ghz>>

\* WaitForCacheSync succeeded: the workers are launched.  Every worker is
\* wait.Until(c.runWorker, time.Second, stopCh), which runs runWorker unless
\* stopCh is closed already (the goroutine is taken to start at once)
RunStartWorkers ==
  /\ runPc = "waitSync"
  /\ WaitedFor \subseteq synced
  /\ runPc' = "blocked"
  /\ pc' = [w \in Workers |-> IF stopCh THEN "stopped" ELSE "get"]
  /\ NoLog
  /\ UNCHANGED <<workQueue, store, cache, namespaces, CleanUpThreshold, synced,
                 stopCh, item, adds, syncErr, lifetime, process, event, ghz>>

\* WaitForCacheSync failed: Run returns an error, its deferred ShutDown runs
RunSyncFailed ==
  /\ runPc = "waitSync"
  /\ stopCh
  /\ runPc' = "failed"
  /\ workQueue' = ShutDown(workQueue)
  /\ NoLog
  /\ UNCHANGED <<store, cache, namespaces, CleanUpThreshold, synced, stopCh, pc, item, adds, syncErr, lifetime, process, event, ghz>>

\* <-stopCh: Run returns nil, its deferred ShutDown runs
RunStopped ==
  /\ runPc = "blocked"
  /\ stopCh
  /\ runPc' = "returned"
  /\ workQueue' = ShutDown(workQueue)
  /\ NoLog
  /\ UNCHANGED <<store, cache, namespaces, CleanUpThreshold, synced, stopCh, pc, item, adds, syncErr, lifetime, process, event, ghz>>

(***************************************************************************)
(* The workers: runWorker calls processNextWorkItem until it returns false *)
(***************************************************************************)
\* processNextWorkItem as it would be if Done were called as soon as Get
\* returns, not deferred to the end of the call
ProcessGetDoneAtOnce(w) ==
  /\ pc[w] = "get"
  /\ Len(workQueue.queue) > 0
  /\ item' = [item EXCEPT ![w] = GetItem(workQueue)]
  /\ workQueue' = Done(Get(workQueue), GetItem(workQueue))
  /\ adds' = [adds EXCEPT ![GetItem(workQueue)] = 0]
  /\ pc' = [pc EXCEPT ![w] = "sync"]
  /\ NoLog
  /\ UNCHANGED <<store, cache, namespaces, CleanUpThreshold, synced, stopCh, runPc,
                 syncErr, lifetime, process, event, ghz>>

\* processNextWorkItem: Get returns an item, and Done is deferred
ProcessGet(w) ==
  /\ pc[w] = "get"
  /\ Len(workQueue.queue) > 0
  /\ item' = [item EXCEPT ![w] = GetItem(workQueue)]
  /\ workQueue' = Get(workQueue)
  /\ adds' = [adds EXCEPT ![GetItem(workQueue)] = 0]
  /\ pc' = [pc EXCEPT ![w] = "sync"]
  /\ NoLog
  /\ UNCHANGED <<store, cache, namespaces, CleanUpThreshold, synced, stopCh, runPc, syncErr, lifetime, process, event, ghz>>

\* processNextWorkItem as it would be if a worker left its loop as soon as
\* stopCh is closed
ProcessShutdownOnStop(w) ==
  /\ pc[w] = "get"
  /\ stopCh
  /\ pc' = [pc EXCEPT ![w] = "stopped"]
  /\ NoLog
  /\ UNCHANGED <<workQueue, store, cache, namespaces, CleanUpThreshold, synced,
                 stopCh, runPc, item, adds, syncErr, lifetime, process, event, ghz>>

\* processNextWorkItem: Get reports the shutdown, runWorker returns
ProcessShutdown(w) ==
  /\ pc[w] = "get"
  /\ Len(workQueue.queue) = 0
  /\ workQueue.shuttingDown
  /\ pc' = [pc EXCEPT ![w] = "stopped"]
  /\ NoLog
  /\ UNCHANGED <<workQueue, store, cache, namespaces, CleanUpThreshold, synced,
                 stopCh, runPc, item, adds, syncErr, lifetime, process, event, ghz>>

\* the retry classification as it would be if the worker went on to Forget
\* after AddRateLimited
ClassifyForgetAfter(q, key, err) ==
  Forget(IF err THEN AddRateLimited(q, key) ELSE q, key)

\* the retry classification as it would be if a failed key were not added
\* to the queue again
ClassifyNoRetry(q, key, err) == IF err THEN q ELSE Forget(q, key)

\* the retry classification of processNextWorkItem
Classify(q, key, err) == IF err THEN AddRateLimited(q, key) ELSE Forget(q, key)

\* the part of a reconcile that acts on the cluster and on the work queue
Effects(st) == [err |-> st.err, cached |-> st.cached, obj |-> st.obj, nss |-> st.nss]

\* the log of worker w running syncHandler(key) to the final st
Log(w, key, st) ==
  [ran |-> TRUE, worker |-> w, key |-> key, failures0 |-> workQueue.failures[key],
   waiting0 |-> key \in workQueue.waiting,
   cached0 |-> cache[key], obj0 |-> store[key], nss0 |-> namespaces,
   err |-> st.err, failedAt |-> st.failedAt, shared |-> st.shared, cached |-> st.cached, lt |-> st.lt,
   obj |-> st.obj, nss |-> st.nss, exceeded |-> st.exceeded, calls |-> st.calls, del |-> st.del,
   upd |-> st.upd]

\* the reconciles of a key: syncHandler(key) on the cluster as it is
Reconciles(key) ==
  syncHandler(key, cache[key], store[key], namespaces, CleanUpThreshold)

\* the effects of a reconcile of key on the cluster.  The failures of a key
\* are counted up to MaxFailures while the queue takes keys; once it is shut
\* down no key is added and the reconciles left are finitely many
Reconciled(key, r) ==
  /\ r.err => (workQueue.failures[key] < MaxFailures \/ workQueue.shuttingDown)
  /\ store' = [store EXCEPT ![key] = r.obj]
  /\ cache' = [cache EXCEPT ![key] = r.cached]
  /\ namespaces' = r.nss

\* processNextWorkItem: syncHandler runs, then the key is rate limited or
\* forgotten
ProcessSync(w) ==
  /\ pc[w] = "sync"
  /\ pc' = [pc EXCEPT ![w] = "done"]
  /\ NoLog
  /\ UNCHANGED <<CleanUpThreshold, synced, stopCh, runPc, item, adds, lifetime, process, event, ghz>>
  /\ \E r \in { Effects(st) : st \in Reconciles(item[w]) } :
       /\ syncErr' = [syncErr EXCEPT ![w] = r.err]
       /\ workQueue' = Classify(workQueue, item[w], r.err)
       /\ Reconciled(item[w], r)

\* processNextWorkItem: the deferred Done runs
ProcessDone(w) ==
  /\ pc[w] = "done"
  /\ workQueue' = Done(workQueue, item[w])
  /\ pc' = [pc EXCEPT ![w] = "get"]
  /\ item' = [item EXCEPT ![w] = NoKey]
  /\ syncErr' = [syncErr EXCEPT ![w] = FALSE]
  /\ NoLog
  /\ UNCHANGED <<store, cache, namespaces, CleanUpThreshold, synced, stopCh, runPc,
                 adds, lifetime, process, event, ghz>>

Next ==
  \/ \E n \in LoadTests : CreateLoadTest(n)
  \/ \E n \in LoadTests : RemoveLoadTest(n)
  \/ \E n \in LoadTests : CollectNamespace(n)
  \/ \E n \in LoadTests : LoadTestChanged(n)
  \/ \E n \in LoadTests : LoadTestResync(n)
  \/ \E i \in Informers : HasSynced(i)
  \/ \E k \in LoadTests : BackoffElapsed(k)
  \/ CloseStopCh
  \/ RunStartWorkers
  \/ RunSyncFailed
  \/ RunStopped
  \/ \E w \in Workers : ProcessGet(w)
  \/ \E w \in Workers : ProcessShutdown(w)
  \/ \E w \in Workers : ProcessSync(w)
  \/ \E w \in Workers : ProcessDone(w)

Spec == Init /\ [][Next]_vars

(***************************************************************************)
(* The reconciles one after the other: the workers are started, every call *)
(* of processNextWorkItem is one step, and the log shows the reconcile in  *)
(* the state that follows it.                                              *)
(***************************************************************************)
InitSync ==
  /\ workQueue = NewQueue
  /\ store = [n \in LoadTests |-> Absent]
  /\ cache = [n \in LoadTests |-> Absent]
  /\ namespaces = {}
  /\ CleanUpThreshold \in {0, Threshold}
  /\ synced = WaitedFor
  /\ stopCh = FALSE
  /\ runPc = "blocked"
  /\ pc = [w \in Workers |-> "get"]
  /\ item = [w \in Workers |-> NoKey]
  /\ syncErr = [w \in Workers |-> FALSE]
  /\ lifetime = NoCall
  /\ process = NoItem
  /\ event = NoEvent
  /\ ghz = NoGhz
  /\ adds = [k \in LoadTests |-> 0]
  /\ last = NoReconcile

\* processNextWorkItem, from Get to the deferred Done
processNextWorkItem(w) ==
  /\ pc[w] = "get"
  /\ Len(workQueue.queue) > 0
  /\ LET key == GetItem(workQueue)
     IN  \E st \in Reconciles(key) :
           /\ Reconciled(key, st)
           /\ workQueue' = Done(Classify(Get(workQueue), key, st.err), key)
           /\ adds' = [adds EXCEPT ![key] = 0]
           /\ last' = Log(w, key, st)
  /\ UNCHANGED <<CleanUpThreshold, synced, stopCh, runPc, pc, item, syncErr, lifetime, process, event, ghz>>

NextSync ==
  \/ \E n \in LoadTests : CreateLoadTest(n)
  \/ \E n \in LoadTests : RemoveLoadTest(n)
  \/ \E n \in LoadTests : CollectNamespace(n)
  \/ \E n \in LoadTests : LoadTestChanged(n)
  \/ \E n \in LoadTests : LoadTestResync(n)
  \/ \E k \in LoadTests : BackoffElapsed(k)
  \/ \E w \in Workers : processNextWorkItem(w)

SpecSync == InitSync /\ [][NextSync]_vars

(***************************************************************************)
(* The controller once Run has started the workers, with the workers and   *)
(* the back-off timers running: a worker that returned from syncHandler    *)
(* comes to its deferred Done, a worker that waits in Get while the queue  *)
(* holds an item is handed one, and a back-off that was started elapses.   *)
(* Nothing is assumed of the time a call of syncHandler takes.             *)
(***************************************************************************)
InitStarted ==
  /\ workQueue = NewQueue
  /\ store = [n \in LoadTests |-> Absent]
  /\ cache = [n \in LoadTests |-> Absent]
  /\ namespaces = {}
  /\ CleanUpThreshold = Threshold
  /\ synced = WaitedFor
  /\ stopCh = FALSE
  /\ runPc = "blocked"
  /\ pc = [w \in Workers |-> "get"]
  /\ item = [w \in Workers |-> NoKey]
  /\ syncErr = [w \in Workers |-> FALSE]
  /\ lifetime = NoCall
  /\ process = NoItem
  /\ event = NoEvent
  /\ ghz = NoGhz
  /\ adds = [k \in LoadTests |-> 0]
  /\ last = NoReconcile

\* runWorker: the steps of worker w
runWorker(w) ==
  \/ ProcessGet(w)
  \/ ProcessShutdown(w)
  \/ ProcessSync(w)
  \/ ProcessDone(w)

NextStarted ==
  \/ \E n \in LoadTests : CreateLoadTest(n)
  \/ \E n \in LoadTests : RemoveLoadTest(n)
  \/ \E n \in LoadTests : CollectNamespace(n)
  \/ \E n \in LoadTests : LoadTestChanged(n)
  \/ \E n \in LoadTests : LoadTestResync(n)
  \/ \E k \in LoadTests : BackoffElapsed(k)
  \/ CloseStopCh
  \/ RunStopped
  \/ \E w \in Workers : runWorker(w)

Fairness ==
  /\ \A w \in Workers : WF_vars(ProcessGet(w)) /\ WF_vars(ProcessDone(w))
  /\ \A k \in LoadTests : WF_vars(BackoffElapsed(k))

SpecFair == InitStarted /\ [][NextStarted]_vars /\ Fairness

(***************************************************************************)
(* The controller once Run has started the workers, with Run and the       *)
(* workers running (SpecStop): Run comes to its return once stopCh is      *)
(* closed, a call of syncHandler returns, and a worker that waits in Get   *)
(* while the queue is shut down and empty is told so.  The clean up of     *)
(* finished LoadTests is not configured.                                   *)
(***************************************************************************)
InitStop ==
  /\ workQueue = NewQueue
  /\ store = [n \in LoadTests |-> Absent]
  /\ cache = [n \in LoadTests |-> Absent]
  /\ namespaces = {}
  /\ CleanUpThreshold = 0
  /\ synced = WaitedFor
  /\ stopCh = FALSE
  /\ runPc = "blocked"
  /\ pc = [w \in Workers |-> "get"]
  /\ item = [w \in Workers |-> NoKey]
  /\ syncErr = [w \in Workers |-> FALSE]
  /\ lifetime = NoCall
  /\ process = NoItem
  /\ event = NoEvent
  /\ ghz = NoGhz
  /\ adds = [k \in LoadTests |-> 0]
  /\ last = NoReconcile

FairnessStop ==
  /\ WF_vars(RunStopped)
  /\ \A w \in Workers : WF_vars(runWorker(w))

SpecStop == InitStop /\ [][NextStarted]_vars /\ FairnessStop

(***************************************************************************)
(* checkLoadTestLifeTimeExceeded on its own: the LoadTest, the threshold   *)
(* and the reading of the clock are any, and the one step is the call.     *)
(***************************************************************************)
Times == 0..MaxNow

InitLifetime ==
  /\ workQueue = NewQueue
  /\ store = [n \in LoadTests |-> Absent]
  /\ cache = [n \in LoadTests |-> Absent]
  /\ namespaces = {}
  /\ CleanUpThreshold = Threshold
  /\ synced = {}
  /\ stopCh = FALSE
  /\ runPc = "waitSync"
  /\ pc = [w \in Workers |-> "idle"]
  /\ item = [w \in Workers |-> NoKey]
  /\ syncErr = [w \in Workers |-> FALSE]
  /\ adds = [k \in LoadTests |-> 0]
  /\ process = NoItem
  /\ event = NoEvent
  /\ ghz = NoGhz
  /\ last = NoReconcile
  /\ \E p \in Phases : \E c \in {NilTime} \cup Times : \E t \in Times :
     \E d \in Times : \E now \in Times :
       lifetime = [loadTest |-> [exists |-> TRUE, type |-> "Ghz", phase |-> p,
                                 namespace |-> "", completion |-> c, creation |-> t],
                   deleteThreshold |-> d, now |-> now,
                   called |-> FALSE, exceeded |-> FALSE]

CallLifeTimeExceeded ==
  /\ ~lifetime.called
  /\ lifetime' = [lifetime EXCEPT
                    !.called = TRUE,
                    !.exceeded = checkLoadTestLifeTimeExceeded(lifetime.loadTest,
                                   lifetime.deleteThreshold, lifetime.now)]
  /\ UNCHANGED <<workQueue, store, cache, namespaces, CleanUpThreshold, synced, stopCh,
                 runPc, pc, item, syncErr, adds, last, process, event, ghz>>

NextLifetime == CallLifeTimeExceeded

SpecLifetime == InitLifetime /\ [][NextLifetime]_vars

(***************************************************************************)
(* processNextWorkItem on its own, statement by statement (SpecItem): one  *)
(* worker takes one item off the queue while the handlers and the back-off *)
(* timers go on adding.  process is the call:                              *)
(*   pc      the statement it is at                                        *)
(*   obj     the item Get returned                                         *)
(*   string  obj.(string) succeeds                                         *)
(*   key     the variable key of the closure                               *)
(*   err     the variable err of the closure (line 271) is not nil         *)
(*   ret     what the closure returns; "panic": syncHandler panicked       *)
(*   calls   the calls issued so far, in order                             *)
(*   counts, latencies  the attribute success of every reconcile_count     *)
(*           increment and of every reconcile_latency record               *)
(***************************************************************************)
InitItem ==
  /\ \E f \in 0..MaxFailures : \E k \in LoadTests : \E delayed \in SUBSET LoadTests :
       \/ workQueue = [NewQueue EXCEPT !.failures[k] = f, !.waiting = delayed]
       \/ workQueue = [NewQueue EXCEPT !.queue = <<k>>, !.dirty = {k}, !.failures[k] = f,
                                       !.waiting = delayed]
  /\ store = [n \in LoadTests |-> Absent]
  /\ cache = [n \in LoadTests |-> Absent]
  /\ namespaces = {}
  /\ CleanUpThreshold = Threshold
  /\ synced = Informers
  /\ stopCh = FALSE
  /\ runPc = "running"
  /\ pc = [w \in Workers |-> "idle"]
  /\ item = [w \in Workers |-> NoKey]
  /\ syncErr = [w \in Workers |-> FALSE]
  /\ adds = [k \in LoadTests |-> 0]
  /\ lifetime = NoCall
  /\ \E str \in BOOLEAN :
       process = [pc |-> "get", obj |-> NoKey, string |-> str, key |-> NoKey,
                  err |-> FALSE, ret |-> "none", calls |-> <<>>,
                  counts |-> <<>>, latencies |-> <<>>]
  /\ event = NoEvent
  /\ ghz = NoGhz
  /\ last = NoReconcile

ItemUnchanged ==
  UNCHANGED <<store, cache, namespaces, CleanUpThreshold, synced, stopCh, runPc, pc,
              item, syncErr, adds, lifetime, event, ghz, last>>

\* a handler enqueues a key while the call is under way
ItemEnqueue(k) ==
  /\ process.pc # "none"
  /\ workQueue' = Add(workQueue, k)
  /\ UNCHANGED process
  /\ ItemUnchanged

\* the back-off timer of a delayed key fires while the call is under way
ItemBackoff(k) ==
  /\ process.pc # "none"
  /\ k \in workQueue.waiting
  /\ workQueue' = TimerFire(workQueue, k)
  /\ UNCHANGED process
  /\ ItemUnchanged

\* Run returns while the call is under way: its deferred ShutDown
ItemShutDown ==
  /\ process.pc # "none"
  /\ ~workQueue.shuttingDown
  /\ workQueue' = ShutDown(workQueue)
  /\ UNCHANGED process
  /\ ItemUnchanged

\* obj, shutdown := c.workQueue.Get(); if shutdown { return false }
ItemGetShutdown ==
  /\ process.pc = "get"
  /\ workQueue.queue = <<>>
  /\ workQueue.shuttingDown
  /\ process' = [process EXCEPT !.pc = "exited"]
  /\ UNCHANGED workQueue
  /\ ItemUnchanged

\* obj, shutdown := c.workQueue.Get() with an item; the closure is entered and
\* its two deferred calls are registered
ItemGet ==
  /\ process.pc = "get"
  /\ workQueue.queue # <<>>
  /\ workQueue' = Get(workQueue)
  /\ process' = [process EXCEPT !.pc = "assert", !.obj = GetItem(workQueue),
                                !.calls = Append(@, "Get")]
  /\ ItemUnchanged

\* if key, ok = obj.(string); !ok { Forget(obj); return nil }
ItemAssert ==
  /\ process.pc = "assert"
  /\ IF process.string
       THEN /\ process' = [process EXCEPT !.pc = "sync", !.key = process.obj]
            /\ UNCHANGED workQueue
       ELSE /\ workQueue' = Forget(workQueue, process.obj)
            /\ process' = [process EXCEPT !.pc = "metrics", !.ret = "nil",
                                          !.calls = Append(@, "Forget")]
  /\ ItemUnchanged

\* if err := c.syncHandler(key); err != nil { AddRateLimited(key); return
\* fmt.Errorf(...) }; Forget(obj); return nil.  syncHandler returns nil, or an
\* error, or panics.  The err of the if statement is a variable of its own
\* (:=): the err of the closure stays nil, and the closure's result has no
\* name, so that return does not assign it either.
ItemSync ==
  /\ process.pc = "sync"
  /\ \/ /\ workQueue' = Forget(workQueue, process.obj)
        /\ process' = [process EXCEPT !.pc = "metrics", !.ret = "nil",
                                      !.calls = @ \o <<"syncHandler", "Forget">>]
     \/ /\ workQueue' = AddRateLimited(workQueue, process.key)
        /\ process' = [process EXCEPT !.pc = "metrics", !.ret = "error",
                                      !.calls = @ \o <<"syncHandler", "AddRateLimited">>]
     \/ /\ UNCHANGED workQueue
        /\ process' = [process EXCEPT !.pc = "metrics", !.ret = "panic",
                                      !.calls = Append(@, "syncHandler")]
  /\ ItemUnchanged

\* the deferred closure of lines 272-280, which runs at every exit of the
\* closure, a panic included: status is falseString when err is not nil
ItemMetrics ==
  /\ process.pc = "metrics"
  /\ LET status == IF process.err THEN "false" ELSE "true"
         attributes == [key |-> process.key, success |-> status]
     IN  process' = [process EXCEPT !.pc = "done",
                                    !.counts = Append(@, attributes),
                                    !.latencies = Append(@, attributes)]
  /\ UNCHANGED workQueue
  /\ ItemUnchanged

\* the mutant of ItemDone: Done is called at the return of the closure only
ItemDoneAtReturn ==
  /\ process.pc = "done"
  /\ IF process.ret = "panic"
       THEN /\ UNCHANGED workQueue
            /\ process' = [process EXCEPT !.pc = "crashed"]
       ELSE /\ workQueue' = Done(workQueue, process.obj)
            /\ process' = [process EXCEPT !.pc = "returned", !.calls = Append(@, "Done")]
  /\ ItemUnchanged

\* defer c.workQueue.Done(obj): the deferred call registered first runs last,
\* at every exit of the closure; a panic goes on unwinding after it
ItemDone ==
  /\ process.pc = "done"
  /\ workQueue' = Done(workQueue, process.obj)
  /\ process' = [process EXCEPT
                   !.pc = IF process.ret = "panic" THEN "crashed" ELSE "returned",
                   !.calls = Append(@, "Done")]
  /\ ItemUnchanged

NextItem ==
  \/ \E k \in LoadTests : ItemEnqueue(k)
  \/ \E k \in LoadTests : ItemBackoff(k)
  \/ ItemShutDown
  \/ ItemGet
  \/ ItemGetShutdown
  \/ ItemAssert
  \/ ItemSync
  \/ ItemMetrics
  \/ ItemDone

SpecItem == InitItem /\ [][NextItem]_vars

(***************************************************************************)
(* The event handlers of NewController on their own (SpecEvents): an       *)
(* informer delivers one event after the other, and event tells the event  *)
(* just delivered:                                                         *)
(*   resource  "LoadTest", "Job" or "Pod"                                  *)
(*   kind      "Add", "Update" or "Delete"                                 *)
(*   old, new  the objects handed to the handler (for an Add and a Delete  *)
(*             the one object, twice)                                      *)
(*   keys      the keys the handler passed to workQueue.Add, in order      *)
(* A Job or a Pod is its resourceVersion rv and its ownerReferences refs,  *)
(* of which one at most is a controller.                                   *)
(***************************************************************************)
Versions == 1..MaxVersion

\* the names an ownerReference may hold: the LoadTests, and a name of none
OwnerNames == LoadTests \cup {"t0"}

OwnerRefs == [kind : {"LoadTest", "Deployment"}, name : OwnerNames, controller : BOOLEAN]

OwnedObjects ==
  [rv : Versions,
   refs : { refs \in SUBSET OwnerRefs :
              /\ Cardinality(refs) <= 2
              /\ Cardinality({r \in refs : r.controller}) <= 1 }]

\* the LoadTest objects an event carries
LoadTestObjects == [name : LoadTests, rv : Versions]

\* metaV1.GetControllerOf found no controller
NoRef == [kind |-> "", name |-> "", controller |-> FALSE]

\* metaV1.GetControllerOf(object)
GetControllerOf(object) ==
  IF \E r \in object.refs : r.controller
    THEN CHOOSE r \in object.refs : r.controller
    ELSE NoRef

\* handleObject as it would be if it took the first LoadTest among the owners,
\* controller or not
handleObjectAnyOwner(object, lister) ==
  IF \E r \in object.refs : r.kind = "LoadTest" /\ r.name \in LoadTests /\ lister[r.name].exists
    THEN <<KeyOf((CHOOSE r \in object.refs :
                    r.kind = "LoadTest" /\ r.name \in LoadTests /\ lister[r.name].exists).name)>>
    ELSE <<>>

\* handleObject(obj), obj a Job or a Pod (handleObject is called from AddFunc
\* and UpdateFunc only, so never with a tombstone): the keys it enqueues
handleObject(object, lister) ==
  LET ownerRef == GetControllerOf(object)
  IN  IF ownerRef = NoRef THEN <<>>
      ELSE IF ownerRef.kind # "LoadTest" THEN <<>>
      ELSE IF ownerRef.name \notin LoadTests \/ ~lister[ownerRef.name].exists THEN <<>>
      ELSE <<KeyOf(ownerRef.name)>>

\* UpdateFunc of the Job and of the Pod informer as it would be without the
\* comparison of the resourceVersions
OwnedUpdateFuncUnfiltered(old, new, lister) == handleObject(new, lister)

\* UpdateFunc of the Job and of the Pod informer
OwnedUpdateFunc(old, new, lister) ==
  IF new.rv = old.rv THEN <<>> ELSE handleObject(new, lister)

\* UpdateFunc of the LoadTest informer as it would be if it skipped the
\* updates that leave the resourceVersion as it is
LoadTestUpdateFuncFiltered(old, new) ==
  IF new.rv = old.rv THEN <<>> ELSE <<KeyOf(new.name)>>

\* UpdateFunc of the LoadTest informer: controller.enqueueLoadTest(new)
LoadTestUpdateFunc(old, new) == <<KeyOf(new.name)>>

\* the queue after the keys were passed to workQueue.Add one by one
RECURSIVE AddAll(_, _)
AddAll(q, keys) ==
  IF keys = <<>> THEN q ELSE AddAll(Add(q, Head(keys)), Tail(keys))

InitEvents ==
  /\ workQueue = NewQueue
  /\ store = [n \in LoadTests |-> Absent]
  /\ cache = [n \in LoadTests |-> Absent]
  /\ namespaces = {}
  /\ CleanUpThreshold = Threshold
  /\ synced = {}
  /\ stopCh = FALSE
  /\ runPc = "waitSync"
  /\ pc = [w \in Workers |-> "idle"]
  /\ item = [w \in Workers |-> NoKey]
  /\ syncErr = [w \in Workers |-> FALSE]
  /\ adds = [k \in LoadTests |-> 0]
  /\ lifetime = NoCall
  /\ process = NoItem
  /\ event = NoEvent
  /\ ghz = NoGhz
  /\ last = NoReconcile

EventUnchanged ==
  UNCHANGED <<store, namespaces, CleanUpThreshold, synced, stopCh, runPc, pc, item,
              syncErr, adds, lifetime, process, ghz, last>>

\* the event is delivered: the handler ran and enqueued keys
Delivered(resource, kind, old, new, keys) ==
  /\ event' = [resource |-> resource, kind |-> kind, old |-> old, new |-> new,
               keys |-> keys]
  /\ workQueue' = AddAll(workQueue, keys)

\* the LoadTest informer lists or watches a new LoadTest: AddFunc is
\* controller.enqueueLoadTest
LoadTestAdded(obj) ==
  /\ ~cache[obj.name].exists
  /\ \E type \in LoadTestTypes : cache' = [cache EXCEPT ![obj.name] = NewLoadTest(type)]
  /\ Delivered("LoadTest", "Add", obj, obj, <<KeyOf(obj.name)>>)
  /\ EventUnchanged

\* the LoadTest informer watches a change of a LoadTest, or resyncs it
\* (old and new are then the same object)
LoadTestUpdated(old, new) ==
  /\ old.name = new.name
  /\ old.rv <= new.rv
  /\ cache[new.name].exists
  /\ UNCHANGED cache
  /\ Delivered("LoadTest", "Update", old, new, LoadTestUpdateFunc(old, new))
  /\ EventUnchanged

\* the LoadTest informer watches the deletion of a LoadTest: the handlers
\* registered hold no DeleteFunc
LoadTestDeleted(obj) ==
  /\ cache[obj.name].exists
  /\ cache' = [cache EXCEPT ![obj.name] = Absent]
  /\ Delivered("LoadTest", "Delete", obj, obj, <<>>)
  /\ EventUnchanged

\* the Job or the Pod informer lists or watches a new object: AddFunc is
\* controller.handleObject
OwnedAdded(resource, obj) ==
  /\ UNCHANGED cache
  /\ Delivered(resource, "Add", obj, obj, handleObject(obj, cache))
  /\ EventUnchanged

\* the Job or the Pod informer watches a change of an object, or resyncs it
\* (old and new are then the same object); the owners of an object stay
OwnedUpdated(resource, old, new) ==
  /\ old.rv <= new.rv
  /\ old.refs = new.refs
  /\ UNCHANGED cache
  /\ Delivered(resource, "Update", old, new, OwnedUpdateFunc(old, new, cache))
  /\ EventUnchanged

\* the Job or the Pod informer watches the deletion of an object: the
\* handlers registered hold no DeleteFunc
OwnedDeleted(resource, obj) ==
  /\ UNCHANGED cache
  /\ Delivered(resource, "Delete", obj, obj, <<>>)
  /\ EventUnchanged

\* a worker takes the key off the queue and is done with it
EventsWorked ==
  /\ workQueue.queue # <<>>
  /\ workQueue' = Done(Get(workQueue), GetItem(workQueue))
  /\ event' = NoEvent
  /\ UNCHANGED cache
  /\ EventUnchanged

NextEvents ==
  \/ \E obj \in LoadTestObjects : LoadTestAdded(obj)
  \/ \E old \in LoadTestObjects : \E new \in LoadTestObjects : LoadTestUpdated(old, new)
  \/ \E obj \in LoadTestObjects : LoadTestDeleted(obj)
  \/ \E resource \in {"Job", "Pod"} : \E obj \in OwnedObjects : OwnedAdded(resource, obj)
  \/ \E resource \in {"Job", "Pod"} : \E new \in OwnedObjects : \E rv \in Versions :
       OwnedUpdated(resource, [new EXCEPT !.rv = rv], new)
  \/ \E resource \in {"Job", "Pod"} : \E obj \in OwnedObjects : OwnedDeleted(resource, obj)
  \/ EventsWorked

SpecEvents == InitEvents /\ [][NextEvents]_vars

(***************************************************************************)
(* The functions of the ghz backend on their own (SpecGhz): the arguments  *)
(* are any, and the one step is a call of NewJob or of                     *)
(* determineLoadTestStatusFromJobs.  ghz holds the arguments (job: the     *)
(* status of the Job; masterConfig: loadTest.Spec.MasterConfig; reportURL) *)
(* and the results (phase; imageRef and env of the container of the Job).  *)
(***************************************************************************)
JobCounters == 0..MaxJobs

\* the values of spec.masterConfig.image and of spec.masterConfig.tag
Images == {"", "ghz", "registry/ghz"}
Tags == {"", "v1", "latest"}

\* b.image: the image the backend is configured with
DefaultImage == [Image |-> "default", Tag |-> "stable"]

\* fmt.Sprintf("%s:%s", image, tag)
Sprintf(image, tag) == image \o ":" \o tag

\* determineLoadTestStatusFromJobs as it would be if the active pods were
\* looked at first
determineLoadTestStatusActiveFirst(job) ==
  IF job.Active > 0 THEN "Running"
  ELSE IF job.Failed > 0 THEN "Errored"
  ELSE IF job.Succeeded = 0 /\ job.Failed = 0 THEN "Starting"
  ELSE "Finished"

\* determineLoadTestStatusFromJobs(job)
determineLoadTestStatusFromJobs(job) ==
  IF job.Failed > 0 THEN "Errored"
  ELSE IF job.Active > 0 THEN "Running"
  ELSE IF job.Succeeded = 0 /\ job.Failed = 0 THEN "Starting"
  ELSE "Finished"

\* NewJob: the image of the container
NewJobImage(masterConfig) ==
  LET imageRef == Sprintf(masterConfig.Image, masterConfig.Tag)
  IN  IF imageRef = ":" THEN Sprintf(DefaultImage.Image, DefaultImage.Tag) ELSE imageRef

\* NewJob: the environment of the container
NewJobEnv(reportURL) ==
  IF "" # reportURL THEN <<[Name |-> "REPORT_PRESIGNED_URL", Value |-> reportURL]>> ELSE <<>>

InitGhz ==
  /\ workQueue = NewQueue
  /\ store = [n \in LoadTests |-> Absent]
  /\ cache = [n \in LoadTests |-> Absent]
  /\ namespaces = {}
  /\ CleanUpThreshold = Threshold
  /\ synced = {}
  /\ stopCh = FALSE
  /\ runPc = "waitSync"
  /\ pc = [w \in Workers |-> "idle"]
  /\ item = [w \in Workers |-> NoKey]
  /\ syncErr = [w \in Workers |-> FALSE]
  /\ adds = [k \in LoadTests |-> 0]
  /\ lifetime = NoCall
  /\ process = NoItem
  /\ event = NoEvent
  /\ \E failed \in JobCounters : \E active \in JobCounters : \E succeeded \in JobCounters :
     \E image \in Images : \E tag \in Tags : \E url \in {"", "https://report"} :
       ghz = [called |-> "none",
              job |-> [Failed |-> failed, Active |-> active, Succeeded |-> succeeded],
              masterConfig |-> [Image |-> image, Tag |-> tag],
              reportURL |-> url,
              phase |-> "", imageRef |-> "", env |-> <<>>]
  /\ last = NoReconcile

GhzUnchanged ==
  UNCHANGED <<workQueue, store, cache, namespaces, CleanUpThreshold, synced, stopCh,
              runPc, pc, item, syncErr, adds, lifetime, process, event, last>>

\* SyncStatus calls determineLoadTestStatusFromJobs(job)
CallDetermineStatus ==
  /\ ghz.called = "none"
  /\ ghz' = [ghz EXCEPT !.called = "determineLoadTestStatusFromJobs",
                        !.phase = determineLoadTestStatusFromJobs(ghz.job)]
  /\ GhzUnchanged

\* Sync calls b.NewJob(loadTest, configMap, reportURL)
CallNewJob ==
  /\ ghz.called = "none"
  /\ ghz' = [ghz EXCEPT !.called = "NewJob",
                        !.imageRef = NewJobImage(ghz.masterConfig),
                        !.env = NewJobEnv(ghz.reportURL)]
  /\ GhzUnchanged

NextGhz ==
  \/ CallDetermineStatus
  \/ CallNewJob

SpecGhz == InitGhz /\ [][NextGhz]_vars

(***************************************************************************)
(* The work queue and the workers (Spec).                                  *)
(***************************************************************************)
\* worker w is inside syncHandler(k)
Syncing(w, k) == pc[w] = "sync" /\ item[w] = k

\* worker w holds k in flight: Get returned k to it, its Done is still to come
Holding(w, k) == pc[w] \in {"sync", "done"} /\ item[w] = k

\* C1 (serialization): whatever the informer handlers and the failing workers
\* enqueue, no two workers are inside syncHandler for the same key at the same
\* time; a key is even held in flight (from Get to Done) by one worker at most.
C1_Serialization ==
  \A k \in LoadTests : \A w1 \in Workers : \A w2 \in Workers :
    (w1 # w2 /\ Holding(w1, k)) => (~Syncing(w2, k) /\ ~Holding(w2, k))

\* a worker is inside syncHandler(k) after an earlier reconcile of k failed,
\* k was enqueued again meanwhile, and another worker is waiting in Get
C1_Witness ==
  \E k \in LoadTests : \E w1 \in Workers : \E w2 \in Workers :
    /\ w1 # w2
    /\ Syncing(w1, k)
    /\ pc[w2] = "get"
    /\ k \in workQueue.dirty
    /\ workQueue.failures[k] > 0

\* the reconcile of k by a worker returned an error, and the queue is not
\* shut down
FailedReconcile(k) ==
  /\ ~workQueue.shuttingDown
  /\ \E w \in Workers : pc[w] = "done" /\ item[w] = k /\ syncErr[w]

\* C4 (liveness of retry): with the workers and the back-off timers running,
\* a key whose reconcile returned an error while the queue was not shut down
\* is handed out by Get and is inside syncHandler again later on, informer
\* event or not, unless the queue is shut down first.
C4_RetryLiveness ==
  \A k \in LoadTests :
    FailedReconcile(k) ~>
      ((\E w \in Workers : Syncing(w, k)) \/ workQueue.shuttingDown)

\* a key that failed is inside syncHandler again: its back-off has elapsed and
\* nothing enqueued it since it was handed out
C4_Witness ==
  \E k \in LoadTests : \E w \in Workers :
    /\ Syncing(w, k)
    /\ workQueue.failures[k] >= 1
    /\ k \notin workQueue.waiting
    /\ adds[k] = 0
    /\ ~workQueue.shuttingDown

\* C2 (coalescing): the queue holds a key once at most; a key enqueued while a
\* worker holds it in flight is not queued but marked, so that the Done of the
\* worker queues it once, however many the enqueues were; a key enqueued since
\* Get last returned it is pending exactly once (marked while in flight, in the
\* queue once otherwise).
C2_Coalescing ==
  \A k \in LoadTests :
    /\ Count(workQueue, k) <= 1
    /\ \A w \in Workers : Holding(w, k) => ~InQueue(workQueue, k)
    /\ adds[k] >= 1 =>
         IF \E w \in Workers : Holding(w, k)
         THEN k \in workQueue.dirty
         ELSE Count(workQueue, k) = 1

\* a worker holds k in flight and k was enqueued two times or more meanwhile
C2_Witness ==
  \E k \in LoadTests : \E w \in Workers :
    /\ Holding(w, k)
    /\ adds[k] >= 2
    /\ k \in workQueue.dirty
    /\ ~InQueue(workQueue, k)

(***************************************************************************)
(* The reconciles (SpecSync): last is the reconcile of the step just       *)
(* taken, and the other variables are the state it left.                   *)
(***************************************************************************)
\* the reconcile issued the call
InCalls(call) == \E i \in 1..Len(last.calls) : last.calls[i] = call

\* the reconcile found the LoadTest in the cache
Fetched == last.ran /\ last.cached0.exists

\* C3 (retry classification): when syncHandler returns nil the worker forgets
\* the key (failure count 0) and does not rate limit it (no back-off timer is
\* started for it); when syncHandler returns an error the worker rate limits
\* the key exactly once (failure count one more than before, back-off timer
\* running) and does not forget it.
C3_RetryClassification ==
  last.ran =>
    IF last.err
    THEN /\ workQueue.failures[last.key] = last.failures0 + 1
         /\ last.key \in workQueue.waiting
    ELSE /\ workQueue.failures[last.key] = 0
         /\ last.key \in workQueue.waiting => last.waiting0

\* a reconcile failed right after an earlier failure of the same key
C3_Witness ==
  /\ last.ran
  /\ last.err
  /\ last.failures0 >= 1
  /\ workQueue.failures[last.key] = last.failures0 + 1

\* C5 (status-update guard): on every exit path of a reconcile that fetched
\* the LoadTest from the cache, UpdateStatus is called if and only if the phase
\* of the working copy differs from the phase of the cached object at exit.
C5_StatusUpdateGuard ==
  Fetched => (InCalls("UpdateStatus") <=> last.lt.phase # last.cached.phase)

\* backend.SyncStatus changed the phase and returned an error: the reconcile
\* fails and UpdateStatus is called all the same
C5_Witness ==
  /\ Fetched
  /\ last.failedAt = "SyncStatus"
  /\ last.lt.phase # last.cached.phase
  /\ InCalls("UpdateStatus")

\* C6 (conflict on status update): when every step succeeded and UpdateStatus
\* returned a conflict, syncHandler returns nil, the worker forgets the key and
\* does not rate limit it.
C6_ConflictSwallowed ==
  (last.ran /\ last.upd = "conflict" /\ last.failedAt = "none") =>
    /\ ~last.err
    /\ workQueue.failures[last.key] = 0
    /\ last.key \in workQueue.waiting => last.waiting0

\* UpdateStatus returned a conflict to a reconcile of a key that had failed
\* before, and the failure count is reset
C6_Witness ==
  /\ last.ran
  /\ last.upd = "conflict"
  /\ last.failedAt = "none"
  /\ last.failures0 >= 1
  /\ workQueue.failures[last.key] = 0

FirstSuccess ==
  /\ Fetched
  /\ ~last.err
  /\ last.obj0.exists
  /\ last.obj0.namespace = ""

\* C8 as claimed: after a successful reconcile of a LoadTest whose stored
\* status.namespace was empty, the stored LoadTest has status.namespace equal
\* to the name of its namespace.
C8_StoredOnSuccess ==
  (FirstSuccess /\ last.obj.exists) => last.obj.namespace = newNamespace(last.key)

\* C8 (amended): after such a reconcile the stored LoadTest has status.namespace
\* equal to the name of its namespace if UpdateStatus was called (the phase
\* changed) and accepted; if it was not called, or was rejected, the stored
\* status.namespace is still empty.
C8_StoredOnUpdate ==
  FirstSuccess =>
    IF last.upd = "ok"
    THEN /\ last.obj.exists
         /\ last.obj.namespace = newNamespace(last.key)
         /\ newNamespace(last.key) \in last.nss
    ELSE last.obj.exists => last.obj.namespace = ""

\* the first reconcile of a LoadTest created its namespace and stored its name
C8_Witness ==
  /\ FirstSuccess
  /\ InCalls("Create")
  /\ last.upd = "ok"
  /\ last.obj.namespace = newNamespace(last.key)

\* C9 (deep-copy purity): on every exit path the object the cache holds is
\* after the reconcile what it was before; the writes of the reconcile went to
\* the copy.
C9_DeepCopyPurity ==
  last.ran =>
    /\ cache[last.key] = last.cached0
    /\ last.cached = last.cached0

\* a reconcile changed the namespace, the phase and the job status of its copy
C9_Witness ==
  /\ Fetched
  /\ last.lt.namespace # last.cached0.namespace
  /\ last.lt.phase # last.cached0.phase
  /\ last.lt.completion # last.cached0.completion
  /\ cache[last.key] = last.cached0

\* C11 (garbage collection): a reconcile calls Delete if and only if
\* CleanUpThreshold is not 0, the namespace step, backend.Sync and
\* backend.SyncStatus succeeded, and checkLoadTestLifeTimeExceeded returned
\* true for the copy as SyncStatus left it (at some reading of the clock);
\* with a threshold of 0 no reconcile checks the lifetime or calls Delete; a
\* Delete that fails leaves syncHandler returning nil, the key forgotten and
\* no back-off started.
C11_GarbageCollection ==
  Fetched =>
    /\ InCalls("Delete") <=>
         /\ CleanUpThreshold # 0
         /\ InCalls("SyncStatus")
         /\ last.failedAt = "none"
         /\ last.exceeded = "yes"
    /\ last.exceeded = "yes" =>
         \E now \in Clock : checkLoadTestLifeTimeExceeded(last.lt, CleanUpThreshold, now)
    /\ last.exceeded = "no" =>
         \E now \in Clock : ~checkLoadTestLifeTimeExceeded(last.lt, CleanUpThreshold, now)
    /\ (CleanUpThreshold # 0 /\ InCalls("SyncStatus") /\ last.failedAt = "none")
         => last.exceeded # "unchecked"
    /\ CleanUpThreshold = 0 => (~InCalls("Delete") /\ last.exceeded = "unchecked")
    /\ last.del \in {"conflict", "error"} =>
         /\ ~last.err
         /\ workQueue.failures[last.key] = 0
         /\ last.key \in workQueue.waiting => last.waiting0

\* the Delete of a LoadTest whose lifetime is exceeded ended in a conflict,
\* and the reconcile of the key, which had failed before, is a success
C11_Witness ==
  /\ Fetched
  /\ InCalls("Delete")
  /\ last.del = "conflict"
  /\ last.failures0 >= 1
  /\ ~last.err
  /\ workQueue.failures[last.key] = 0

(***************************************************************************)
(* The lifetime predicate (SpecLifetime).                                  *)
(***************************************************************************)
\* C10 (lifetime predicate): checkLoadTestLifeTimeExceeded returns true exactly
\* when the completion time is set, lies more than the threshold back and the
\* phase is Finished or Errored, or the phase is Errored and the creation lies
\* more than the threshold back; so it returns false for a Finished LoadTest
\* whose completion lies exactly the threshold back, and false for the phases
\* Creating, Starting and Running at any age.
C10_LifetimePredicate ==
  lifetime.called =>
    LET lt == lifetime.loadTest
        threshold == lifetime.deleteThreshold
        sinceCompletion == lifetime.now - lt.completion
        sinceCreation == lifetime.now - lt.creation
    IN  /\ lifetime.exceeded <=>
             \/ /\ lt.completion # NilTime
                /\ sinceCompletion > threshold
                /\ lt.phase \in {"Finished", "Errored"}
             \/ /\ lt.phase = "Errored"
                /\ sinceCreation > threshold
        /\ (lt.phase = "Finished" /\ lt.completion # NilTime /\ sinceCompletion = threshold)
             => ~lifetime.exceeded
        /\ lt.phase \in {"Creating", "Starting", "Running"} => ~lifetime.exceeded

\* the call for a Finished LoadTest whose completion lies exactly the
\* threshold back returned false
C10_Witness ==
  /\ lifetime.called
  /\ lifetime.loadTest.phase = "Finished"
  /\ lifetime.loadTest.completion # NilTime
  /\ lifetime.deleteThreshold > 0
  /\ lifetime.now - lifetime.loadTest.completion = lifetime.deleteThreshold
  /\ ~lifetime.exceeded


(***************************************************************************)
(* One call of processNextWorkItem (SpecItem).                             *)
(***************************************************************************)
\* the closure of processNextWorkItem has exited: by a return, or by a panic
Exited == process.pc \in {"returned", "crashed"}

\* the positions of a call in the calls of processNextWorkItem
Positions(name) == {i \in 1..Len(process.calls) : process.calls[i] = name}

\* C12 (metrics emission): once the closure has returned for an item Get
\* handed out, reconcile_count was incremented exactly once and
\* reconcile_latency recorded exactly once, both with success="true" when
\* the closure returned no error and with success="false" when it returned
\* one.
C12_MetricsEmission ==
  process.pc = "returned" =>
    LET success == IF process.ret = "error" THEN "false" ELSE "true"
    IN  /\ Len(process.counts) = 1
        /\ Len(process.latencies) = 1
        /\ process.counts[1].success = success
        /\ process.latencies[1].success = success

\* C20 (Done on all exit paths): between Get and the exit of the closure the
\* item is in flight and no Done was called; at the exit, whichever it is
\* (sync success, sync error, non-string item, panic inside syncHandler),
\* Done was called exactly once, as the last call, and the item is no longer
\* in flight; on the error path AddRateLimited was called before it.
C20_DoneOnAllExitPaths ==
  /\ process.pc \in {"assert", "sync", "metrics", "done"} =>
       /\ Positions("Done") = {}
       /\ process.obj \in workQueue.processing
  /\ Exited =>
       /\ Cardinality(Positions("Done")) = 1
       /\ process.calls[Len(process.calls)] = "Done"
       /\ process.obj \notin workQueue.processing
  /\ (Exited /\ process.ret = "error") =>
       \E i \in Positions("AddRateLimited") : \E j \in Positions("Done") : i < j

\* syncHandler panicked while the key was enqueued again: the deferred Done
\* ran all the same and put the key back in the queue
C20_Witness ==
  /\ process.pc = "crashed"
  /\ process.calls = <<"Get", "syncHandler", "Done">>
  /\ workQueue.queue = <<process.obj>>

(***************************************************************************)
(* Controller.Run (Spec).                                                  *)
(***************************************************************************)
\* worker w is inside processNextWorkItem, or between two calls of it
Working(w) == pc[w] \in {"get", "sync", "done"}

\* C13 (cache-sync barrier): no worker executes processNextWorkItem before
\* the LoadTest, the Job and the Pod informers have all synced; and when the
\* wait for the caches fails, Run has returned an error, no worker was
\* launched and the work queue is shut down.
C13_CacheSyncBarrier ==
  /\ (\E w \in Workers : Working(w)) => {"loadtest", "job", "pod"} \subseteq synced
  /\ runPc = "failed" =>
       /\ workQueue.shuttingDown
       /\ \A w \in Workers : pc[w] = "idle"

\* every worker has left its loop
AllStopped == \A w \in Workers : pc[w] = "stopped"

OfOwned == event.kind # "none" /\ event.resource \in {"Job", "Pod"}

\* the event just delivered is a Job or Pod Update that leaves the
\* resourceVersion as it is (a resync)
OwnedResync == OfOwned /\ event.kind = "Update" /\ event.new.rv = event.old.rv

\* the event just delivered is a Job or Pod Add, or an Update that changes the
\* resourceVersion
OwnedChange ==
  /\ OfOwned
  /\ \/ event.kind = "Add"
     \/ event.kind = "Update" /\ event.new.rv # event.old.rv

\* the controlling owners of the object of the event that are LoadTests of
\* the LoadTest cache
OwningLoadTests ==
  { r \in event.new.refs :
      r.controller /\ r.kind = "LoadTest" /\ r.name \in LoadTests /\ cache[r.name].exists }

\* C15 (resync suppression): a Job or Pod Update whose new object has the
\* resourceVersion of the old one enqueues nothing and leaves the queue as it
\* is, whoever owns the object.
C15_ResyncSuppression ==
  /\ [](OwnedResync => event.keys = <<>>)
  /\ [][OwnedResync' => workQueue' = workQueue]_vars

\* a Job or Pod resync of an object a LoadTest of the cache controls
C15_Witness == OwnedResync /\ OwningLoadTests # {}

\* C16 (owner-reference filter): a Job or Pod Add, or Update with a changed
\* resourceVersion, enqueues exactly one key, the one of the owning LoadTest,
\* when the object has a controlling owner of Kind LoadTest whose name is in
\* the LoadTest cache, and nothing otherwise (no controller, a controller of
\* another Kind, a LoadTest that is not in the cache).
C16_OwnerReferenceFilter ==
  OwnedChange =>
    /\ OwningLoadTests # {} =>
         /\ \E r \in OwningLoadTests : event.keys = <<KeyOf(r.name)>>
         /\ \A i \in 1..Len(event.keys) : event.keys[i] \in workQueue.dirty
    /\ OwningLoadTests = {} => event.keys = <<>>

\* an Update with a new resourceVersion of an object that a LoadTest of the
\* cache controls and that has a second owner enqueued the key of the LoadTest
C16_Witness ==
  /\ OwnedChange
  /\ event.kind = "Update"
  /\ Cardinality(event.new.refs) = 2
  /\ OwningLoadTests # {}
  /\ Len(event.keys) = 1

\* C17 (LoadTest event translation): every LoadTest Add and every LoadTest
\* Update, the resync Update with an unchanged resourceVersion included,
\* enqueues the key of the LoadTest through workQueue.Add; a LoadTest Delete
\* enqueues nothing.
C17_LoadTestEvents ==
  /\ []((event.kind # "none" /\ event.resource = "LoadTest") =>
         /\ event.kind \in {"Add", "Update"} =>
              /\ event.keys = <<KeyOf(event.new.name)>>
              /\ KeyOf(event.new.name) \in workQueue.dirty
         /\ event.kind = "Delete" => event.keys = <<>>)
  /\ [][(event'.kind = "Delete" /\ event'.resource = "LoadTest") =>
          workQueue' = workQueue]_vars

\* a LoadTest resync (an Update with the resourceVersion unchanged) enqueued
\* the key
C17_Witness ==
  /\ event.kind = "Update"
  /\ event.resource = "LoadTest"
  /\ event.new.rv = event.old.rv
  /\ event.keys = <<KeyOf(event.new.name)>>

(***************************************************************************)
(* The ghz backend (SpecGhz).                                              *)
(***************************************************************************)
\* determineLoadTestStatusFromJobs has returned
Determined == ghz.called = "determineLoadTestStatusFromJobs"

\* C18 (phase mapping): for all job counters determineLoadTestStatusFromJobs
\* returns Errored when failed > 0 (active pods or not), Running when
\* failed = 0 and active > 0, Starting when the three counters are 0 and
\* Finished when failed = 0, active = 0 and succeeded > 0; it never returns
\* Creating.
C18_PhaseMapping ==
  Determined =>
    /\ ghz.job.Failed > 0 => ghz.phase = "Errored"
    /\ (ghz.job.Failed = 0 /\ ghz.job.Active > 0) => ghz.phase = "Running"
    /\ (ghz.job.Failed = 0 /\ ghz.job.Active = 0 /\ ghz.job.Succeeded = 0) =>
         ghz.phase = "Starting"
    /\ (ghz.job.Failed = 0 /\ ghz.job.Active = 0 /\ ghz.job.Succeeded > 0) =>
         ghz.phase = "Finished"
    /\ ghz.phase \in Phases \ {"Creating"}

\* the status of a Job with failed and active pods was mapped
C18_Witness ==
  /\ Determined
  /\ ghz.job.Failed > 0
  /\ ghz.job.Active > 0
  /\ ghz.phase = "Errored"

\* C19 (image default): NewJob gives the container the image the backend is
\* configured with whenever spec.masterConfig.image or spec.masterConfig.tag
\* is empty, and image:tag of the spec only when both are set.
C19_ImageDefault ==
  ghz.called = "NewJob" =>
    ghz.imageRef =
      IF ghz.masterConfig.Image = "" \/ ghz.masterConfig.Tag = ""
        THEN DefaultImage.Image \o ":" \o DefaultImage.Tag
        ELSE ghz.masterConfig.Image \o ":" \o ghz.masterConfig.Tag

(***************************************************************************)
(* The exits of syncHandler before its steps (SpecSync).                   *)
(***************************************************************************)
\* the reconcile did not find the LoadTest in the cache
NotFound == last.ran /\ ~last.cached0.exists

\* the reconcile left the cluster as it was
NoSideEffect ==
  /\ last.obj = last.obj0
  /\ last.nss = last.nss0
  /\ last.cached = last.cached0
  /\ store[last.key] = last.obj0
  /\ namespaces = last.nss0

\* C21 (missing LoadTest is a no-op): a reconcile of a key whose LoadTest is
\* not in the cache returns nil and issues no call at all (no backend is
\* resolved, no namespace listed or created, no backend call, no status
\* write, no Delete); the worker forgets the key and the key is neither in
\* the queue nor rate limited by it.
C21_MissingLoadTest ==
  NotFound =>
    /\ ~last.err
    /\ last.calls = <<>>
    /\ NoSideEffect
    /\ workQueue.failures[last.key] = 0
    /\ ~InQueue(workQueue, last.key)
    /\ last.key \notin workQueue.dirty
    /\ last.key \in workQueue.waiting => last.waiting0

\* the key of a LoadTest that failed to reconcile and was deleted since was
\* handed out: the failures counted for it are forgotten
C21_Witness ==
  /\ NotFound
  /\ last.failures0 > 0
  /\ workQueue.failures[last.key] = 0

\* the reconcile found a LoadTest whose spec.type the Registry does not hold
UnknownType == Fetched /\ last.cached0.type \notin Registry

\* C22 (unknown backend type): a reconcile of a LoadTest whose spec.type has
\* no backend in the Registry returns the error of GetBackend before any
\* side effect (no namespace List or Create, no backend call, no status
\* write, no Delete); the worker rate limits the key and does not forget it:
\* one more failure is counted, so the back-off grows from one such reconcile
\* to the next, and the back-off timer of the key is running.
C22_UnknownBackend ==
  UnknownType =>
    /\ last.err
    /\ last.failedAt = "GetBackend"
    /\ last.calls = <<"GetBackend">>
    /\ NoSideEffect
    /\ workQueue.failures[last.key] = last.failures0 + 1
    /\ last.key \in workQueue.waiting

\* the key of a LoadTest of an unregistered type failed again after its
\* back-off: its failures are counted up to the cap
C22_Witness ==
  /\ UnknownType
  /\ last.failures0 = MaxFailures - 1
  /\ workQueue.failures[last.key] = MaxFailures

(***************************************************************************)
(* The changes of the owned objects (SpecEvents).                          *)
(***************************************************************************)
\* the event just delivered is a Job or Pod Delete
OwnedDelete == OfOwned /\ event.kind = "Delete"

\* C23 (a work item on every change of an owned object): every Add, every
\* Update with a changed resourceVersion and every Delete of a Job or Pod
\* whose controlling owner is a LoadTest of the cache enqueues the key of that
\* LoadTest.
C23_OwnedObjectChanges ==
  ((OwnedChange \/ OwnedDelete) /\ OwningLoadTests # {}) =>
    \E r \in OwningLoadTests :
      /\ event.keys = <<KeyOf(r.name)>>
      /\ KeyOf(r.name) \in workQueue.dirty

(***************************************************************************)
(* The namespace of a LoadTest and the order of the steps (SpecSync).      *)
(***************************************************************************)
\* the positions of a call in the calls of the reconcile
CallsOf(call) == {i \in 1..Len(last.calls) : last.calls[i] = call}

\* the namespace that carries the label controller=<name> of the LoadTest of
\* the reconcile existed when the reconcile began
Labelled == newNamespace(last.key) \in last.nss0

\* C24 (at most one namespace per LoadTest): a reconcile calls Create at most
\* once, and only when no namespace carries the label of the LoadTest; a
\* reconcile that starts with an empty status.namespace while such a namespace
\* exists (an earlier reconcile created it and then failed, or its status
\* write was skipped or lost) lists it and adopts its name without a Create;
\* and the namespace stays for as long as the LoadTest does, so no later
\* reconcile of the LoadTest creates another.
C24_OneNamespace ==
  /\ [](Fetched =>
          /\ Cardinality(CallsOf("Create")) <= 1
          /\ InCalls("Create") => ~Labelled
          /\ (Labelled /\ last.cached0.namespace = "" /\ InCalls("List")
                /\ last.failedAt # "List") =>
               /\ ~InCalls("Create")
               /\ last.lt.namespace = newNamespace(last.key)
               /\ last.nss = last.nss0)
  /\ [][\A n \in LoadTests :
          (n \in namespaces /\ store[n].exists /\ store'[n].exists) => n \in namespaces']_vars

\* a reconcile adopted the namespace that an earlier, failed reconcile of the
\* key had created: the cache still held an empty status.namespace
C24_Witness ==
  /\ Fetched
  /\ Labelled
  /\ last.failures0 > 0
  /\ last.cached0.namespace = ""
  /\ InCalls("List")
  /\ ~InCalls("Create")
  /\ last.lt.namespace = newNamespace(last.key)

\* the place of a call in the order of syncHandler
RankOf(call) ==
  CASE call = "GetBackend" -> 1
    [] call = "List" -> 2
    [] call = "Create" -> 3
    [] call = "Sync" -> 4
    [] call = "SyncStatus" -> 5
    [] call = "Delete" -> 6
    [] call = "UpdateStatus" -> 7

\* C25 (step ordering): in every reconcile the calls come in the order
\* namespace-ensure (List, Create), backend.Sync, backend.SyncStatus,
\* lifetime check and Delete, each once at most, and a step runs only if
\* every earlier step returned no error, and does run then; so backend.Sync
\* and backend.SyncStatus are called with a non-empty status.namespace only
\* (the cached one, or the one the namespace step has just set), and
\* backend.SyncStatus is not called after a failed backend.Sync.
C25_StepOrdering ==
  Fetched =>
    /\ \A i \in 1..Len(last.calls) : \A j \in 1..Len(last.calls) :
         i < j => RankOf(last.calls[i]) < RankOf(last.calls[j])
    /\ InCalls("Sync") <=>
         (~UnknownType /\ last.failedAt \notin {"List", "Create"})
    /\ InCalls("SyncStatus") <=> (InCalls("Sync") /\ last.failedAt # "Sync")
    /\ (InCalls("Delete") \/ last.exceeded # "unchecked") =>
         (InCalls("SyncStatus") /\ last.failedAt = "none")
    /\ InCalls("Sync") =>
         /\ last.lt.namespace # ""
         /\ last.cached0.namespace = "" => InCalls("List")
         /\ last.cached0.namespace # "" => last.lt.namespace = last.cached0.namespace
    /\ last.failedAt = "Sync" => ~InCalls("SyncStatus")

\* backend.Sync failed in the reconcile that created the namespace: the
\* reconcile stopped there
C25_Witness ==
  /\ Fetched
  /\ last.failedAt = "Sync"
  /\ last.calls = <<"GetBackend", "List", "Create", "Sync">>

\* the reconcile called Delete and ends with a phase that is not the cached one
DeletedAndChanged ==
  /\ Fetched
  /\ InCalls("Delete")
  /\ last.lt.phase # last.cached0.phase

\* C26 (Delete precedes the status write): a reconcile that calls Delete for
\* an exceeded lifetime and whose phase differs from the cached phase calls
\* UpdateStatus too, once, after the Delete; when the Delete went through, the
\* LoadTest is gone, the status write fails and nothing is stored; whatever
\* the two calls return, syncHandler returns nil and the key is forgotten.
C26_DeleteBeforeStatus ==
  DeletedAndChanged =>
    /\ Cardinality(CallsOf("UpdateStatus")) = 1
    /\ \A i \in CallsOf("Delete") : \A j \in CallsOf("UpdateStatus") : i < j
    /\ last.del = "ok" =>
         /\ last.upd \notin {"none", "ok"}
         /\ ~last.obj.exists
         /\ ~store[last.key].exists
    /\ ~last.err
    /\ workQueue.failures[last.key] = 0

\* a reconcile deleted a LoadTest that had failed to reconcile before, and its
\* status write then failed
C26_Witness ==
  /\ DeletedAndChanged
  /\ last.del = "ok"
  /\ last.upd = "error"
  /\ last.obj0.exists
  /\ last.failures0 > 0


====
